---- MODULE Spec2Model ----
(***************************************************************************)
(* BabChess search core (src/src/engine.cpp, the revision that starts at   *)
(* line 229): Engine::search / Engine::stop on the host side, and the      *)
(* worker thread running idSearch -> pvSearch -> qSearch.                  *)
(*                                                                         *)
(* The worker's recursion is an explicit stack of frames; every read of    *)
(* the shared flag `aborted` is a step of its own, so that stop() can land *)
(* between any two of them.  Position, MovePicker, evaluate and the        *)
(* transposition table are collaborators whose code is not in engine.cpp;  *)
(* they are modelled from their contracts over a small abstract game.      *)
(***************************************************************************)
EXTENDS Integers, Sequences, FiniteSets, TLC

(***************************************************************************)
(* Score algebra (engine.h / types, not part of engine.cpp).               *)
(***************************************************************************)
SCORE_DRAW == 0
SCORE_MATE == 32000
SCORE_INFINITE == 32001
SCORE_NONE == 32002
MOVE_NONE == 0

\* Depth ceiling of the iterative deepening loop and of the recursion.
\* The engine uses a three-digit value; the model scales it down so that
\* the loop's exhaustion and the ply ceiling are reached.
MAX_PLY == 5

\* Number of search() calls the host issues in one behaviour.
MaxCalls == 2

(***************************************************************************)
(* The abstract game: positions are numbers, a move is a number that is    *)
(* legal in some positions only.  Root positions: 1 (a tactical tree with  *)
(* a same-ply transposition), 11 (draw, stalemate and mate one ply away),  *)
(* 20 (a position reachable at ply 1 and at ply 3), 30 (a line of MAX_PLY  *)
(* moves that ends in a mate), 10 (stalemate), 12 (mated), 13 (drawn).     *)
(***************************************************************************)
Mv(m, to, quiet) == [m |-> m, to |-> to, quiet |-> quiet]

\* Position::enumerateLegalMoves: the legal moves of p, in generation order.
LegalMoves(p) ==
  CASE p = 1  -> << Mv(1, 2, TRUE),  Mv(2, 3, TRUE) >>
    [] p = 2  -> << Mv(3, 4, TRUE),  Mv(4, 5, FALSE) >>
    [] p = 3  -> << Mv(5, 4, TRUE),  Mv(6, 7, FALSE) >>
    [] p = 4  -> << Mv(7, 8, TRUE) >>
    [] p = 5  -> << Mv(8, 9, FALSE) >>
    [] p = 11 -> << Mv(1, 13, TRUE), Mv(2, 10, TRUE), Mv(3, 12, TRUE) >>
    [] p = 13 -> << Mv(4, 14, FALSE) >>
    [] p = 20 -> << Mv(1, 21, TRUE), Mv(2, 22, TRUE) >>
    [] p = 21 -> << Mv(5, 24, TRUE) >>
    [] p = 22 -> << Mv(3, 23, TRUE) >>
    [] p = 23 -> << Mv(4, 21, TRUE) >>
    [] p = 24 -> << Mv(6, 25, FALSE) >>
    [] p = 30 -> << Mv(1, 31, TRUE) >>
    [] p = 31 -> << Mv(2, 32, TRUE) >>
    [] p = 32 -> << Mv(3, 33, TRUE) >>
    [] p = 33 -> << Mv(4, 34, TRUE) >>
    [] p = 34 -> << Mv(5, 35, FALSE) >>
    [] OTHER  -> << >>

Positions == {1, 2, 3, 4, 5, 7, 8, 9, 10, 11, 12, 13, 14, 20, 21, 22, 23, 24, 25,
              30, 31, 32, 33, 34, 35}
RootPositions == {1, 10, 11, 12, 13, 20, 30}

\* Position::inCheck
InCheck(p) == p \in {3, 7, 12, 35}

\* Position::isFiftyMoveDraw() || isMaterialDraw() || isRepetitionDraw()
IsDraw(p) == p = 13

\* evaluate<Me>(pos): static score from the side to move's point of view.
\* The scores of the positions in VariedLeaves are an input of the model
\* (the variable leafEval); the others are fixed.
VariedLeaves == {4, 5, 8}
LeafScores == {-3, 1, 2}
FixedLeafEval == [p \in VariedLeaves |-> CASE p = 4 -> 1 [] p = 5 -> -3 [] OTHER -> 2]

VARIABLE leafEval

Evaluate(p) ==
  CASE p \in VariedLeaves -> leafEval[p]
    [] p = 2  -> 1
    [] p = 3  -> -2
    [] p = 7  -> -4
    [] p = 9  -> -1
    [] p = 10 -> -5
    [] p = 12 -> -9
    [] p = 13 -> 7
    [] p = 14 -> -8
    [] p = 21 -> 1
    [] p = 22 -> -1
    [] p = 23 -> 2
    [] p = 24 -> 5
    [] p = 25 -> -6
    [] p = 31 -> 1
    [] p = 33 -> -1
    [] p = 34 -> 3
    [] p = 35 -> -7
    [] OTHER  -> 0

RECURSIVE SelectSeqBy(_, _)
\* the subsequence of moves s whose quiet flag is in the set qs
SelectSeqBy(s, qs) ==
  IF s = << >> THEN << >>
  ELSE IF Head(s).quiet \in qs THEN << Head(s) >> \o SelectSeqBy(Tail(s), qs)
       ELSE SelectSeqBy(Tail(s), qs)

RECURSIVE Without(_, _)
Without(s, m) ==
  IF s = << >> THEN << >>
  ELSE IF Head(s).m = m THEN Without(Tail(s), m)
       ELSE << Head(s) >> \o Without(Tail(s), m)

\* MovePicker<MAIN|QUIESCENCE, Me>(pos, ttMove).enumerate: MAIN yields every
\* legal move; QUIESCENCE yields the non-quiet ones, or every evasion when in
\* check; a legal hint move comes first.
MovePicker(type, p, ttMove) ==
  LET all  == LegalMoves(p)
      base == IF type = "MAIN" \/ InCheck(p) THEN all
              ELSE SelectSeqBy(all, {FALSE})
      hint == SelectSeq(base, LAMBDA x : x.m = ttMove)
  IN  IF hint = << >> THEN base ELSE hint \o Without(base, ttMove)

\* the position after `move` in p (Position::doMove)
Child(p, move) ==
  LET c == SelectSeq(LegalMoves(p), LAMBDA x : x.m = move) IN c[1].to

IsLegal(p, move) == \E i \in 1..Len(LegalMoves(p)) : LegalMoves(p)[i].m = move

\* Position::getSideToMove
SideToMove(p) ==
  IF p \in {1, 4, 5, 7, 11, 14, 20, 23, 24, 30, 32, 34} THEN "White" ELSE "Black"

(***************************************************************************)
(* Transposition table (tt.h): probe/store contract, one slot per hash.    *)
(***************************************************************************)
EmptySlot ==
  [hit |-> FALSE, depth |-> 0, bound |-> "NONE", move |-> MOVE_NONE,
   eval |-> SCORE_NONE, score |-> SCORE_NONE]

\* tt.clear()
TTClear == [p \in Positions |-> EmptySlot]

\* mate scores are stored relative to the node: add ply on store
ScoreToTT(s, ply) ==
  IF s = SCORE_NONE THEN SCORE_NONE
  ELSE IF s >= SCORE_MATE - MAX_PLY THEN s + ply
  ELSE IF s <= -SCORE_MATE + MAX_PLY THEN s - ply
  ELSE s

\* tte->score(ply): subtract ply on load
TTScore(e, ply) ==
  IF e.score = SCORE_NONE THEN SCORE_NONE
  ELSE IF e.score >= SCORE_MATE - MAX_PLY THEN e.score - ply
  ELSE IF e.score <= -SCORE_MATE + MAX_PLY THEN e.score + ply
  ELSE e.score

\* tte->boundMatch(alpha, beta, ply)
BoundMatch(e, alpha, beta, ply) ==
  \/ e.bound = "EXACT"
  \/ e.bound = "LOWER" /\ TTScore(e, ply) >= beta
  \/ e.bound = "UPPER" /\ TTScore(e, ply) <= alpha

\* tt.set(tte, hash, depth, ply, bound, move, eval, score, pv)
TTSet(t, h, d, ply, bound, move, eval, s) ==
  [t EXCEPT ![h] = [hit |-> TRUE, depth |-> d, bound |-> bound, move |-> move,
                    eval |-> eval, score |-> ScoreToTT(s, ply)]]

(***************************************************************************)
(* SearchLimits and SearchData.                                            *)
(***************************************************************************)
Limits(maxDepth, maxNodes, searchMoves, timeLeft) ==
  [maxDepth |-> maxDepth, maxNodes |-> maxNodes, searchMoves |-> searchMoves,
   timeLeft |-> [s \in {"White", "Black"} |-> timeLeft],
   increment |-> [s \in {"White", "Black"} |-> 0], movesToGo |-> 0]

\* the limits the host passes to search()
LimitsSet ==
  { Limits(0, 0, {}, 0), Limits(2, 0, {}, 0), Limits(1, 0, {2}, 0),
    Limits(0, 3, {}, 0), Limits(0, 0, {}, 40) }

\* SearchData::initAllocatedTime
InitAllocatedTime(p, limits) ==
  LET moves == IF limits.movesToGo > 0 THEN limits.movesToGo ELSE 40
      stm   == SideToMove(p)
  IN  (limits.timeLeft[stm] \div moves) + limits.increment[stm]

\* SearchData::SearchData(pos, limits); the position is kept with its
\* make/unmake history, the current position being the last element.
NewSearchData(p, limits) ==
  [position |-> << p >>, limits |-> limits, nbNodes |-> 0,
   allocatedTime |-> InitAllocatedTime(p, limits)]

NoData == [position |-> << >>, limits |-> Limits(0, 0, {}, 0), nbNodes |-> 0,
           allocatedTime |-> 0]

\* pos.hash()
Hash(d) == d.position[Len(d.position)]

\* SearchData::shouldStop; `expired` is the outcome of the wall-clock test
ShouldStop(d, expired) ==
  \/ d.limits.maxNodes > 0 /\ d.nbNodes >= d.limits.maxNodes
  \/ d.allocatedTime > 0 /\ expired

\* the outcomes the wall-clock test can have
ClockOutcomes(d) == IF d.allocatedTime > 0 THEN BOOLEAN ELSE {FALSE}

(***************************************************************************)
(* State.                                                                  *)
(***************************************************************************)
VARIABLES
  position,        \* Engine: the root position, position()
  searching,       \* Engine: atomic flag
  aborted,         \* Engine: atomic flag
  tt,              \* Engine: the transposition table
  hostPc,          \* where the host thread stands inside search()
  data,            \* search(): the local SearchData snapshot
  nbCalls,         \* number of search() calls issued so far
  nbRejected,      \* number of those that returned at line 262
  wpc,             \* where the worker stands inside idSearch
  sd,              \* idSearch: its SearchData (position, limits, nbNodes)
  depth,           \* idSearch: loop variable
  completedDepth,  \* idSearch
  bestPv,          \* idSearch
  bestScore,       \* idSearch
  pv,              \* idSearch: the pv of the current iteration
  score,           \* idSearch: the score of the current iteration
  event,           \* idSearch: the SearchEvent built at line 302
  stack,           \* the active pvSearch / qSearch frames, root first
  ret,             \* the call that returned in the last step, if any
  events           \* what the sinks received during the current search

hostVars == << hostPc, data, nbCalls, nbRejected >>
idVars   == << wpc, depth, completedDepth, bestPv, bestScore, pv, score, event >>
vars == << leafEval, position, searching, aborted, tt, hostPc, data, nbCalls,
           nbRejected, wpc, sd,
           depth, completedDepth, bestPv, bestScore, pv, score, event, stack,
           ret, events >>

NoRet   == [fn |-> "none"]
NoEvent == [depth |-> 0, pv |-> << >>, score |-> SCORE_NONE, nbNodes |-> 0]

\* SearchEvent(depth, pv, score, nbNodes, elapsed, ttUsage)
SearchEvent(d, line, s, n) == [depth |-> d, pv |-> line, score |-> s, nbNodes |-> n]

Init ==
  /\ position \in RootPositions
  /\ leafEval \in IF position = 1 THEN [VariedLeaves -> LeafScores] ELSE {FixedLeafEval}
  /\ searching = FALSE
  /\ aborted = FALSE
  /\ tt = TTClear
  /\ hostPc = "idle"
  /\ data = NoData
  /\ nbCalls = 0
  /\ nbRejected = 0
  /\ wpc = "none"
  /\ sd = NoData
  /\ depth = 0
  /\ completedDepth = 0
  /\ bestPv = << >>
  /\ bestScore = SCORE_NONE
  /\ pv = << >>
  /\ score = SCORE_NONE
  /\ event = NoEvent
  /\ stack = << >>
  /\ ret = NoRet
  /\ events = << >>

(***************************************************************************)
(* Host thread: Engine::search, one step per statement, and Engine::stop.  *)
(***************************************************************************)
\* mutant: the reentry test is missing
SearchRejectsNever == FALSE

\* line 262: the reentry test
SearchRejects == searching

\* line 262: if (searching) return;  line 264: SearchData data(position(), limits)
SearchEnter ==
  /\ hostPc = "idle"
  /\ nbCalls < MaxCalls
  /\ nbCalls' = nbCalls + 1
  /\ \E limits \in LimitsSet :
       IF SearchRejects
       THEN /\ nbRejected' = nbRejected + 1
            /\ UNCHANGED << hostPc, data >>
       ELSE /\ hostPc' = "l265"
            /\ data' = NewSearchData(position, limits)
            /\ nbRejected' = nbRejected
  /\ UNCHANGED << leafEval, position, searching, aborted, tt, sd, idVars, stack, ret,
                  events >>

\* line 265: aborted = false
SearchResetAborted ==
  /\ hostPc = "l265"
  /\ aborted' = FALSE
  /\ hostPc' = "l266"
  /\ UNCHANGED << leafEval, position, searching, tt, data, nbCalls, nbRejected, sd, idVars, stack, ret, events >>

\* line 266: searching = true
SearchSetSearching ==
  /\ hostPc = "l266"
  /\ searching' = TRUE
  /\ hostPc' = "l268"
  /\ UNCHANGED << leafEval, position, aborted, tt, data, nbCalls, nbRejected, sd, idVars, stack, ret, events >>

\* line 268: tt.clear()
SearchClearTT ==
  /\ hostPc = "l268"
  /\ tt' = TTClear
  /\ hostPc' = "l270"
  /\ UNCHANGED << leafEval, position, searching, aborted, data, nbCalls, nbRejected, sd, idVars, stack, ret, events >>

\* lines 270-271: the worker thread starts idSearch(data); lines 281-285
SearchDispatch ==
  /\ hostPc = "l270"
  /\ hostPc' = "idle"
  /\ data' = NoData
  /\ sd' = data
  /\ wpc' = "iter"
  /\ depth' = 1
  /\ completedDepth' = 0
  /\ bestPv' = << >>
  /\ events' = << >>
  /\ UNCHANGED << leafEval, position, searching, aborted, tt, nbCalls, nbRejected,
                  bestScore, pv, score, event, stack, ret >>

\* lines 274-276: Engine::stop, from any thread
Stop ==
  /\ aborted' = TRUE
  /\ UNCHANGED << leafEval, position, searching, tt, hostVars, sd, idVars, stack, ret,
                  events >>

(***************************************************************************)
(* Worker thread: Engine::idSearch.                                        *)
(***************************************************************************)
\* a fresh pvSearch / qSearch activation record
NewFrame(fn, nt, alpha, beta, d, ply, line) ==
  [fn |-> fn, nt |-> nt, alpha |-> alpha, beta |-> beta, depth |-> d, ply |-> ply,
   pc |-> "entry", alphaOrig |-> alpha, bestScore |-> -SCORE_INFINITE,
   bestMove |-> MOVE_NONE, inCheck |-> FALSE, eval |-> SCORE_NONE,
   moves |-> << >>, nbMoves |-> 0, move |-> MOVE_NONE, score |-> SCORE_NONE,
   childPv |-> << >>, entryPos |-> line, entryAborted |-> aborted]

\* lines 285-289: loop test, fresh window and pv, call of the root pvSearch
IdIterate ==
  /\ wpc = "iter"
  /\ IF depth < MAX_PLY
     THEN /\ pv' = << >>
          /\ stack' = << NewFrame("pv", "Root", -SCORE_INFINITE, SCORE_INFINITE,
                                  depth, 0, sd.position) >>
          /\ wpc' = "search"
     ELSE /\ wpc' = "exit"
          /\ UNCHANGED << pv, stack >>
  /\ ret' = NoRet
  /\ UNCHANGED << leafEval, position, searching, aborted, tt, hostVars, sd, depth,
                  completedDepth, bestPv, bestScore, score, event, events >>

\* mutant: `return` instead of `break`, the thread ends at line 291
IdCheckAbortedReturns ==
  /\ wpc = "check"
  /\ wpc' = IF depth > 1 /\ aborted THEN "none" ELSE "adopt"
  /\ ret' = NoRet
  /\ UNCHANGED << leafEval, position, searching, aborted, tt, hostVars, sd, depth,
                  completedDepth, bestPv, bestScore, pv, score, event, stack, events >>

\* mutant: line 291 is missing, an aborted iteration is adopted
IdCheckAbortedAdopts ==
  /\ wpc = "check"
  /\ wpc' = "adopt"
  /\ ret' = NoRet
  /\ UNCHANGED << leafEval, position, searching, aborted, tt, hostVars, sd, depth,
                  completedDepth, bestPv, bestScore, pv, score, event, stack, events >>

\* line 291: if (depth > 1 && searchAborted()) break;
IdCheckAborted ==
  /\ wpc = "check"
  /\ wpc' = IF depth > 1 /\ aborted THEN "exit" ELSE "adopt"
  /\ ret' = NoRet
  /\ UNCHANGED << leafEval, position, searching, aborted, tt, hostVars, sd, depth,
                  completedDepth, bestPv, bestScore, pv, score, event, stack, events >>

\* mutant: line 299 is missing, limits.maxDepth does not end the loop
IdAdoptIgnoresMaxDepth ==
  /\ wpc = "adopt"
  /\ bestPv' = pv
  /\ bestScore' = score
  /\ completedDepth' = depth
  /\ events' = Append(events, [type |-> "progress", inLoop |-> TRUE,
                               ev |-> SearchEvent(depth, pv, score, sd.nbNodes)])
  /\ wpc' = "iter" /\ depth' = depth + 1
  /\ ret' = NoRet
  /\ UNCHANGED << leafEval, position, searching, aborted, tt, hostVars, sd, pv, score,
                  event, stack >>

\* lines 293-299: adopt the iteration, emit progress, test maxDepth, depth++
IdAdopt ==
  /\ wpc = "adopt"
  /\ bestPv' = pv
  /\ bestScore' = score
  /\ completedDepth' = depth
  /\ events' = Append(events, [type |-> "progress", inLoop |-> TRUE,
                               ev |-> SearchEvent(depth, pv, score, sd.nbNodes)])
  /\ IF sd.limits.maxDepth > 0 /\ depth >= sd.limits.maxDepth
     THEN wpc' = "exit" /\ depth' = depth
     ELSE wpc' = "iter" /\ depth' = depth + 1
  /\ ret' = NoRet
  /\ UNCHANGED << leafEval, position, searching, aborted, tt, hostVars, sd, pv, score,
                  event, stack >>

\* lines 302-304: build the final event; extra progress event
IdExit ==
  /\ wpc = "exit"
  /\ event' = SearchEvent(depth, bestPv, bestScore, sd.nbNodes)
  /\ events' = IF depth # completedDepth
               THEN Append(events, [type |-> "progress", inLoop |-> FALSE, ev |-> event'])
               ELSE events
  /\ wpc' = "finish"
  /\ ret' = NoRet
  /\ UNCHANGED << leafEval, position, searching, aborted, tt, hostVars, sd, depth,
                  completedDepth, bestPv, bestScore, pv, score, stack >>

\* line 305: onSearchFinish(event)
IdFinish ==
  /\ wpc = "finish"
  /\ events' = Append(events, [type |-> "finish", inLoop |-> FALSE, ev |-> event])
  /\ wpc' = "clear"
  /\ ret' = NoRet
  /\ UNCHANGED << leafEval, position, searching, aborted, tt, hostVars, sd, depth,
                  completedDepth, bestPv, bestScore, pv, score, event, stack >>

\* line 307: searching = false; the thread ends and its locals are gone
IdClearSearching ==
  /\ wpc = "clear"
  /\ searching' = FALSE
  /\ wpc' = "none"
  /\ sd' = NoData
  /\ depth' = 0
  /\ completedDepth' = 0
  /\ bestPv' = << >>
  /\ bestScore' = SCORE_NONE
  /\ pv' = << >>
  /\ score' = SCORE_NONE
  /\ event' = NoEvent
  /\ ret' = NoRet
  /\ UNCHANGED << leafEval, position, aborted, tt, hostVars, stack, events >>

(***************************************************************************)
(* Worker thread: call and return of pvSearch / qSearch.                   *)
(***************************************************************************)
Top == stack[Len(stack)]
Running == wpc = "search" /\ stack # << >>
IsPvNode(f) == f.nt # "NonPV"
IsRootNode(f) == f.nt = "Root"

workerFrame == << leafEval, position, searching, hostPc, data, nbCalls, nbRejected,
                  depth, completedDepth, bestPv, bestScore, event, events >>

\* the top frame of stk replaced by g
SetTop(stk, g) == [stk EXCEPT ![Len(stk)] = g]

\* the pv out-parameter of the top frame is the caller's childPv, or
\* idSearch's pv for the root call
WritePv(stk, line) ==
  IF Len(stk) = 1 THEN stk ELSE [stk EXCEPT ![Len(stk) - 1].childPv = line]

\* undoMove: the position goes back to the one before the last doMove
UndoMove(d) == [d EXCEPT !.position = SubSeq(@, 1, Len(@) - 1)]

\* doMove
DoMove(d, move) == [d EXCEPT !.position = Append(@, Child(Hash(d), move))]

\* the caller's frame after the callee returned v: score = -callee(...)
Resume(par, v) ==
  [par EXCEPT !.score = -v,
              !.pc = IF par.pc = "scout" THEN "afterScout" ELSE "undo"]

\* the top frame of stk returns v; `how` names the return statement taken
Return(stk, v, how) ==
  LET n == Len(stk)
      f == stk[n]
  IN  /\ stack' = IF n = 1 THEN << >>
                  ELSE Append(SubSeq(stk, 1, n - 2), Resume(stk[n - 1], v))
      /\ IF n = 1
         THEN score' = v /\ wpc' = "check"
         ELSE UNCHANGED << score, wpc >>
      /\ ret' = [fn |-> f.fn, nt |-> f.nt, alpha |-> f.alphaOrig, beta |-> f.beta,
                 depth |-> f.depth, ply |-> f.ply, value |-> v, how |-> how,
                 entryPos |-> f.entryPos, exitPos |-> sd'.position,
                 nbMoves |-> f.nbMoves, aborted |-> aborted']

\* mutant: the jitter of the earlier revision, 1 - (sd.nbNodes & 2)
DrawScoreJitter(d) == 1 - 2 * ((d.nbNodes \div 2) % 2)

\* lines 341 and 438: the score of a drawn position
DrawScore(d) == SCORE_DRAW

\* mutant: the distance to the mate is not counted
MatedScoreNoPly(ply) == -SCORE_MATE

\* lines 403 and 430: the score of the side that is mated at this ply
MatedScore(ply) == -SCORE_MATE + ply

\* mutant: the move is pushed after the child's line
UpdatePvLineReversed(move, childPv) == childPv \o << move >>

\* updatePv (lines 240-244): the move, then the child's line
UpdatePvLine(move, childPv) == << move >> \o childPv

\* mutant: the limits are never consulted
LimitReachedNever(f, d, expired) == FALSE

\* lines 323 and 420: sd.shouldStop(), which the root node does not consult
LimitReached(f, d, expired) ==
  (f.fn = "q" \/ ~IsRootNode(f)) /\ ShouldStop(d, expired)

\* mutant: the recursion has no ceiling
PlyCeilingNever(f) == FALSE

\* lines 344 and 441: if (ply >= MAX_PLY)
PlyCeiling(f) == f.ply >= MAX_PLY

\* the frame stays on the stack
Continue(stk) ==
  /\ stack' = stk
  /\ ret' = NoRet
  /\ UNCHANGED << score, wpc >>

(***************************************************************************)
(* Engine::pvSearch.                                                       *)
(***************************************************************************)
\* lines 316-318: depth <= 0, the call becomes qSearch with the same arguments
PvHorizon ==
  /\ Running /\ Top.fn = "pv" /\ Top.pc = "entry" /\ Top.depth <= 0
  /\ Continue(SetTop(stack, [Top EXCEPT !.fn = "q"]))
  /\ UNCHANGED << workerFrame, aborted, tt, sd, pv >>

\* lines 407-408
PvBound(f) ==
  IF f.bestScore >= f.beta THEN "LOWER"
  ELSE IF ~IsPvNode(f) \/ f.bestScore <= f.alphaOrig THEN "UPPER"
  ELSE "EXACT"

\* mutant: the stored depth is not compared with the node's depth
PvTTCutoffAnyDepth(f, e) ==
  /\ ~IsPvNode(f)
  /\ e.hit
  /\ TTScore(e, f.ply) # SCORE_NONE
  /\ BoundMatch(e, f.alpha, f.beta, f.ply)

\* line 352: the transposition table cutoff
PvTTCutoff(f, e) ==
  /\ ~IsPvNode(f)
  /\ e.hit
  /\ e.depth >= f.depth
  /\ TTScore(e, f.ply) # SCORE_NONE
  /\ BoundMatch(e, f.alpha, f.beta, f.ply)

\* lines 320-358: node entry up to the construction of the MovePicker
PvEntry ==
  /\ Running /\ Top.fn = "pv" /\ Top.pc = "entry" /\ Top.depth > 0
  /\ \E expired \in ClockOutcomes(sd) :
       LET f       == Top
           stopNow == LimitReached(f, sd, expired)
           p       == Hash(sd)
           e       == tt[p]
           cleared == WritePv(stack, << >>)
       IN  /\ aborted' = (aborted \/ stopNow)
           /\ pv' = IF Len(stack) = 1 THEN << >> ELSE pv
           /\ sd' = sd
           /\ IF ~IsRootNode(f) /\ aborted' THEN Return(cleared, -SCORE_INFINITE, "abort")
              ELSE IF IsDraw(p) THEN Return(cleared, DrawScore(sd), "draw")
              ELSE IF PlyCeiling(f) THEN Return(cleared, Evaluate(p), "ceiling")
              ELSE IF PvTTCutoff(f, e) THEN Return(cleared, TTScore(e, f.ply), "tt")
              ELSE Continue(SetTop(cleared,
                     [f EXCEPT !.pc = "loop", !.inCheck = InCheck(p),
                               !.moves = MovePicker("MAIN", p,
                                           IF e.hit THEN e.move ELSE MOVE_NONE)]))
  /\ UNCHANGED << workerFrame, tt >>

\* lines 360-378: the next move of the enumeration; searchmoves filter,
\* counters, doMove and the first recursive call
PvMove ==
  /\ Running /\ Top.fn = "pv" /\ Top.pc = "loop" /\ Top.moves # << >>
  /\ LET f    == Top
         move == Head(f.moves).m
         nb   == f.nbMoves + 1
     IN  IF /\ IsRootNode(f)
            /\ sd.limits.searchMoves # {}
            /\ move \notin sd.limits.searchMoves
         THEN /\ Continue(SetTop(stack, [f EXCEPT !.moves = Tail(@)]))
              /\ sd' = sd
         ELSE /\ sd' = DoMove([sd EXCEPT !.nbNodes = @ + 1], move)
              /\ ret' = NoRet
              /\ UNCHANGED << score, wpc >>
              /\ IF ~IsPvNode(f) \/ nb > 1
                 THEN stack' = Append(
                        SetTop(stack, [f EXCEPT !.moves = Tail(@), !.nbMoves = nb,
                                                !.move = move, !.pc = "scout"]),
                        NewFrame("pv", "NonPV", -f.alpha - 1, -f.alpha,
                                 f.depth - 1, f.ply + 1, sd'.position))
                 ELSE stack' = Append(
                        SetTop(stack, [f EXCEPT !.moves = Tail(@), !.nbMoves = nb,
                                                !.move = move, !.pc = "full"]),
                        NewFrame("pv", "PV", -f.beta, -f.alpha,
                                 f.depth - 1, f.ply + 1, sd'.position))
  /\ UNCHANGED << workerFrame, aborted, tt, pv >>

\* lines 376-378: after the zero-window scout, the full-window re-search
PvAfterScout ==
  /\ Running /\ Top.fn = "pv" /\ Top.pc = "afterScout"
  /\ LET f == Top
     IN  IF /\ IsPvNode(f)
            /\ \/ f.nbMoves = 1
               \/ f.score > f.alpha /\ (IsRootNode(f) \/ f.score < f.beta)
         THEN /\ stack' = Append(SetTop(stack, [f EXCEPT !.pc = "full"]),
                                 NewFrame("pv", "PV", -f.beta, -f.alpha,
                                          f.depth - 1, f.ply + 1, sd.position))
              /\ ret' = NoRet
              /\ UNCHANGED << score, wpc >>
         ELSE Continue(SetTop(stack, [f EXCEPT !.pc = "undo"]))
  /\ UNCHANGED << workerFrame, aborted, tt, sd, pv >>

\* mutant: lines 392-394 are missing, the loop goes on after alpha >= beta
AdoptNoCutoff(f) ==
  IF f.score > f.bestScore
  THEN IF f.score > f.alpha
       THEN [f EXCEPT !.bestScore = f.score, !.bestMove = f.move, !.alpha = f.score,
                      !.pc = "loop"]
       ELSE [f EXCEPT !.bestScore = f.score, !.pc = "loop"]
  ELSE [f EXCEPT !.pc = "loop"]

\* lines 384-398: the frame after a child's score was compared
Adopt(f) ==
  IF f.score > f.bestScore
  THEN IF f.score > f.alpha
       THEN [f EXCEPT !.bestScore = f.score, !.bestMove = f.move, !.alpha = f.score,
                      !.pc = IF f.score >= f.beta THEN "post" ELSE "loop"]
       ELSE [f EXCEPT !.bestScore = f.score, !.pc = "loop"]
  ELSE [f EXCEPT !.pc = "loop"]

\* updatePv(pv, move, childPv), lines 240-244, when alpha was raised
UpdatePv(stk, f) ==
  IF f.score > f.bestScore /\ f.score > f.alpha
  THEN WritePv(stk, UpdatePvLine(f.move, f.childPv))
  ELSE stk

\* mutant: the abort test comes before undoMove
PvUndoAfterAbortTest ==
  /\ Running /\ Top.fn = "pv" /\ Top.pc = "undo"
  /\ LET f == Top
     IN  IF aborted
         THEN /\ Continue(SetTop(stack, [f EXCEPT !.pc = "post"]))
              /\ pv' = pv
              /\ sd' = sd
         ELSE /\ sd' = UndoMove(sd)
              /\ Continue(SetTop(UpdatePv(stack, f), Adopt(f)))
              /\ pv' = IF Len(stack) = 1 /\ f.score > f.bestScore /\ f.score > f.alpha
                       THEN UpdatePvLine(f.move, f.childPv) ELSE pv
  /\ UNCHANGED << workerFrame, aborted, tt >>

\* lines 380-398: undoMove, the abort test, then the score comparison
PvUndo ==
  /\ Running /\ Top.fn = "pv" /\ Top.pc = "undo"
  /\ LET f == Top
     IN  /\ sd' = UndoMove(sd)
         /\ IF aborted
            THEN /\ Continue(SetTop(stack, [f EXCEPT !.pc = "post"]))
                 /\ pv' = pv
            ELSE /\ Continue(SetTop(UpdatePv(stack, f), Adopt(f)))
                 /\ pv' = IF Len(stack) = 1 /\ f.score > f.bestScore /\ f.score > f.alpha
                          THEN UpdatePvLine(f.move, f.childPv) ELSE pv
  /\ UNCHANGED << workerFrame, aborted, tt >>

\* the enumeration is exhausted
PvLoopEnd ==
  /\ Running /\ Top.fn = "pv" /\ Top.pc = "loop" /\ Top.moves = << >>
  /\ Continue(SetTop(stack, [Top EXCEPT !.pc = "post"]))
  /\ UNCHANGED << workerFrame, aborted, tt, sd, pv >>

\* lines 399-411: after the loop
PvPost ==
  /\ Running /\ Top.fn = "pv" /\ Top.pc = "post"
  /\ UNCHANGED << workerFrame, aborted, pv >>
  /\ LET f == Top
     IN  /\ sd' = sd
         /\ IF aborted
            THEN Return(stack, f.bestScore, "loopabort") /\ tt' = tt
            ELSE IF f.nbMoves = 0
            THEN /\ Return(stack, IF f.inCheck THEN MatedScore(f.ply) ELSE SCORE_DRAW,
                           "terminal")
                 /\ tt' = tt
            ELSE /\ tt' = TTSet(tt, Hash(sd), f.depth, f.ply, PvBound(f), f.bestMove,
                                SCORE_NONE, f.bestScore)
                 /\ Return(stack, f.bestScore, "stored")

(***************************************************************************)
(* Engine::qSearch.                                                        *)
(***************************************************************************)
\* lines 510-511
QBound(f) ==
  IF f.bestScore >= f.beta THEN "LOWER"
  ELSE IF f.bestScore <= f.alphaOrig THEN "UPPER"
  ELSE "EXACT"

\* lines 417-480: node entry, standing pat, construction of the MovePicker
QEntry ==
  /\ Running /\ Top.fn = "q" /\ Top.pc = "entry"
  /\ \E expired \in ClockOutcomes(sd) :
       LET f       == Top
           stopNow == LimitReached(f, sd, expired)
           p       == Hash(sd)
           e       == tt[p]
           cleared == WritePv(stack, << >>)
           inCheck == InCheck(p)
           eval    == IF inCheck THEN SCORE_NONE ELSE Evaluate(p)
       IN  /\ aborted' = (aborted \/ stopNow)
           /\ pv' = IF Len(stack) = 1 THEN << >> ELSE pv
           /\ sd' = sd
           /\ IF aborted' THEN Return(cleared, -SCORE_INFINITE, "abort")
              ELSE IF IsDraw(p) THEN Return(cleared, DrawScore(sd), "draw")
              ELSE IF PlyCeiling(f) THEN Return(cleared, Evaluate(p), "ceiling")
              ELSE IF ~inCheck /\ eval >= f.beta THEN Return(cleared, eval, "standpat")
              ELSE Continue(SetTop(cleared,
                     [f EXCEPT !.pc = "loop", !.inCheck = inCheck, !.eval = eval,
                               !.alphaOrig = f.alpha,
                               !.alpha = IF ~inCheck /\ eval > f.alpha THEN eval ELSE @,
                               !.bestScore = IF inCheck THEN MatedScore(f.ply) ELSE eval,
                               !.moves = MovePicker("QUIESCENCE", p,
                                           IF e.hit THEN e.move ELSE MOVE_NONE)]))
  /\ UNCHANGED << workerFrame, tt >>

\* lines 482-487: the next move; counters, doMove and the recursive call
QMove ==
  /\ Running /\ Top.fn = "q" /\ Top.pc = "loop" /\ Top.moves # << >>
  /\ LET f    == Top
         move == Head(f.moves).m
     IN  /\ sd' = DoMove([sd EXCEPT !.nbNodes = @ + 1], move)
         /\ stack' = Append(
              SetTop(stack, [f EXCEPT !.moves = Tail(@), !.nbMoves = @ + 1,
                                      !.move = move, !.pc = "call"]),
              NewFrame("q", "Q", -f.beta, -f.alpha, f.depth - 1, f.ply + 1,
                       sd'.position))
         /\ ret' = NoRet
  /\ UNCHANGED << workerFrame, aborted, tt, pv, score, wpc >>

\* mutant: line 490 is missing, the score of an aborted child is compared
QUndoNoBreak ==
  /\ Running /\ Top.fn = "q" /\ Top.pc = "undo"
  /\ LET f == Top
     IN  /\ sd' = UndoMove(sd)
         /\ Continue(SetTop(UpdatePv(stack, f), Adopt(f)))
         /\ pv' = IF Len(stack) = 1 /\ f.score > f.bestScore /\ f.score > f.alpha
                  THEN UpdatePvLine(f.move, f.childPv) ELSE pv
  /\ UNCHANGED << workerFrame, aborted, tt >>

\* lines 488-506: undoMove, the abort test, then the score comparison
QUndo ==
  /\ Running /\ Top.fn = "q" /\ Top.pc = "undo"
  /\ LET f == Top
     IN  /\ sd' = UndoMove(sd)
         /\ IF aborted
            THEN /\ Continue(SetTop(stack, [f EXCEPT !.pc = "post"]))
                 /\ pv' = pv
            ELSE /\ Continue(SetTop(UpdatePv(stack, f), Adopt(f)))
                 /\ pv' = IF Len(stack) = 1 /\ f.score > f.bestScore /\ f.score > f.alpha
                          THEN UpdatePvLine(f.move, f.childPv) ELSE pv
  /\ UNCHANGED << workerFrame, aborted, tt >>

\* the enumeration is exhausted
QLoopEnd ==
  /\ Running /\ Top.fn = "q" /\ Top.pc = "loop" /\ Top.moves = << >>
  /\ Continue(SetTop(stack, [Top EXCEPT !.pc = "post"]))
  /\ UNCHANGED << workerFrame, aborted, tt, sd, pv >>

\* lines 507-514: after the loop
QPost ==
  /\ Running /\ Top.fn = "q" /\ Top.pc = "post"
  /\ UNCHANGED << workerFrame, aborted, pv >>
  /\ LET f == Top
     IN  /\ sd' = sd
         /\ IF aborted
            THEN Return(stack, f.bestScore, "loopabort") /\ tt' = tt
            ELSE /\ tt' = TTSet(tt, Hash(sd), IF f.inCheck THEN 1 ELSE 0, f.ply,
                                QBound(f), f.bestMove, f.eval, f.bestScore)
                 /\ Return(stack, f.bestScore, "stored")

(***************************************************************************)
(* The system.                                                             *)
(***************************************************************************)
Host ==
  \/ SearchEnter
  \/ SearchResetAborted
  \/ SearchSetSearching
  \/ SearchClearTT
  \/ SearchDispatch

Worker ==
  \/ IdIterate
  \/ IdCheckAborted
  \/ IdAdopt
  \/ IdExit
  \/ IdFinish
  \/ IdClearSearching
  \/ PvHorizon
  \/ PvEntry
  \/ PvMove
  \/ PvAfterScout
  \/ PvUndo
  \/ PvLoopEnd
  \/ PvPost
  \/ QEntry
  \/ QMove
  \/ QUndo
  \/ QLoopEnd
  \/ QPost

Next == Host \/ Stop \/ Worker

Spec == Init /\ [][Next]_vars

\* The operating system keeps scheduling the worker thread.  The liveness
\* check runs on the games with the fixed leaf scores.
InitFair == Init /\ leafEval = FixedLeafEval

FairSpec == InitFair /\ [][Next]_vars /\ WF_vars(Worker)

(***************************************************************************)
(* Reference values: plain negamax without windows, scouts or table.       *)
(***************************************************************************)
MaxOf(S) == CHOOSE x \in S : \A y \in S : y <= x

RECURSIVE QValue(_, _)
\* quiescence value of p at ply: stand pat (or the mated score when in
\* check) against the best negated child over the moves quiescence tries
QValue(p, ply) ==
  IF IsDraw(p) THEN SCORE_DRAW
  ELSE IF ply >= MAX_PLY THEN Evaluate(p)
  ELSE LET ms   == MovePicker("QUIESCENCE", p, MOVE_NONE)
           base == IF InCheck(p) THEN -SCORE_MATE + ply ELSE Evaluate(p)
       IN  MaxOf({base} \cup { -QValue(ms[i].to, ply + 1) : i \in 1..Len(ms) })

RECURSIVE Negamax(_, _, _, _)
\* value of p searched d plies deep at distance ply from the root, the
\* moves at that node restricted to `only` when it is not empty
Negamax(p, d, ply, only) ==
  IF d <= 0 THEN QValue(p, ply)
  ELSE IF IsDraw(p) THEN SCORE_DRAW
  ELSE IF ply >= MAX_PLY THEN Evaluate(p)
  ELSE LET all == LegalMoves(p)
           ms  == IF only = {} THEN all ELSE SelectSeq(all, LAMBDA x : x.m \in only)
       IN  IF ms = << >>
           THEN IF InCheck(p) THEN -SCORE_MATE + ply ELSE SCORE_DRAW
           ELSE MaxOf({ -Negamax(ms[i].to, d - 1, ply + 1, {}) : i \in 1..Len(ms) })

\* the reference value of the call recorded in r
ReferenceValue(r) ==
  Negamax(r.entryPos[Len(r.entryPos)], IF r.fn = "q" THEN 0 ELSE r.depth, r.ply,
          IF r.nt = "Root" THEN sd.limits.searchMoves ELSE {})

\* the fail-soft contract of a returned score against the reference value
BoundConsistent(r) ==
  LET v == ReferenceValue(r)
  IN  IF r.value <= r.alpha THEN v <= r.value
      ELSE IF r.value >= r.beta THEN v >= r.value
      ELSE r.value = v

(***************************************************************************)
(* Properties.                                                             *)
(***************************************************************************)
\* the searches dispatched so far
Dispatched == nbCalls - nbRejected - (IF hostPc = "idle" THEN 0 ELSE 1)

\* the onSearchFinish events of the current search
FinishCount == Cardinality({ i \in 1..Len(events) : events[i].type = "finish" })

Returned == ret.fn # "none"
RetPos == ret.entryPos[Len(ret.entryPos)]
RootPos == sd.position[1]

\* the root moves that searchMoves allows
AllowedRootMoves ==
  { i \in 1..Len(LegalMoves(RootPos)) :
      \/ sd.limits.searchMoves = {}
      \/ LegalMoves(RootPos)[i].m \in sd.limits.searchMoves }

RECURSIVE LegalLine(_, _)
\* line is a sequence of moves, each legal in the position the preceding ones reach
LegalLine(p, line) ==
  \/ line = << >>
  \/ IsLegal(p, Head(line)) /\ LegalLine(Child(p, Head(line)), Tail(line))

RECURSIVE ReachAt(_, _)
\* the positions k moves away from r
ReachAt(r, k) ==
  IF k = 0 THEN {r}
  ELSE UNION { { LegalMoves(q)[i].to : i \in 1..Len(LegalMoves(q)) } : q \in ReachAt(r, k - 1) }

\* some position occurs at two different distances from r
CrossPly(r) ==
  \E j, k \in 0..MAX_PLY : j < k /\ ReachAt(r, j) \cap ReachAt(r, k) # {}

(* C1: a search() call that finds `searching` set returns at once: it     *)
(* changes neither the flags, nor the table, nor the worker, nor its own   *)
(* position in search(); and the host is never inside the body of search() *)
(* while a worker is active.                                               *)
ReentryGuard ==
  /\ [](hostPc # "idle" => wpc = "none")
  /\ [][(nbCalls' # nbCalls /\ searching)
          => UNCHANGED << hostPc, data, searching, aborted, tt, sd, idVars, stack,
                          events >>]_vars

ReentryGuardWitness == nbRejected > 0 /\ searching /\ wpc = "search"

(* C2: while the worker is in the loop or building its final event no      *)
(* finish event was emitted; when it clears `searching`, and ever after    *)
(* until the next dispatch, exactly one was, and it is the last event.     *)
FinishExactlyOnce ==
  /\ wpc \in {"iter", "search", "check", "adopt", "exit", "finish"}
       => searching /\ FinishCount = 0
  /\ wpc = "clear"
       => searching /\ FinishCount = 1 /\ events[Len(events)].type = "finish"
  /\ (wpc = "none" /\ Dispatched > 0)
       => FinishCount = 1 /\ events[Len(events)].type = "finish"

FinishExactlyOnceWitness ==
  /\ wpc = "none" /\ ~searching /\ aborted /\ Dispatched = 2
  /\ FinishCount = 1
  /\ \E i \in 1..Len(events) : events[i].type = "progress" /\ ~events[i].inLoop

(* C3: under fair scheduling of the worker, once the abort flag is set     *)
(* while a worker runs, the worker emits its finish event and `searching`  *)
(* becomes false.                                                          *)
AbortSafety == (aborted /\ wpc # "none") ~> (~searching /\ FinishCount = 1)

AbortSafetyWitness ==
  /\ aborted /\ wpc = "search" /\ depth = 1
  /\ Len(stack) = 2 /\ stack[2].pc = "entry"

(* C4 (as claimed): the final event carries the last accepted depth.       *)
FinishCarriesCompletedDepth ==
  wpc \in {"finish", "clear"} => event.depth = completedDepth

(* C5 (as claimed): when the root is not drawn and has a legal move that   *)
(* searchMoves allows, the PV of the finish event is not empty.            *)
FinishPvNotEmpty ==
  (wpc \in {"finish", "clear"} /\ ~IsDraw(RootPos) /\ AllowedRootMoves # {})
    => event.pv # << >>

(* C6 (as claimed): every call on a drawn position returns SCORE_DRAW.     *)
DrawAlwaysScoreDraw ==
  (Returned /\ IsDraw(RetPos)) => ret.value = SCORE_DRAW

(* C6 (amended): a call on a drawn position returns SCORE_DRAW, except a   *)
(* call other than the root one that finds the abort flag set (or a limit  *)
(* expired) at its entry, which returns -SCORE_INFINITE.                   *)
DrawReturn ==
  (Returned /\ IsDraw(RetPos))
    => ret.value = IF ret.nt # "Root" /\ ret.aborted THEN -SCORE_INFINITE
                   ELSE SCORE_DRAW

DrawReturnWitness ==
  /\ Returned /\ IsDraw(RetPos) /\ ret.nt = "NonPV" /\ ret.fn = "pv"
  /\ ret.value = SCORE_DRAW

(* C7 (as claimed): every non-aborted call on a non-drawn position without *)
(* legal move returns -SCORE_MATE + ply in check and SCORE_DRAW otherwise. *)
NoMoveTerminalEverywhere ==
  (Returned /\ ~ret.aborted /\ ~IsDraw(RetPos) /\ LegalMoves(RetPos) = << >>)
    => ret.value = IF InCheck(RetPos) THEN -SCORE_MATE + ret.ply ELSE SCORE_DRAW

(* C7 (amended): below the ply ceiling, such a call returns                *)
(* -SCORE_MATE + ply in check; not in check, pvSearch with depth > 0       *)
(* returns SCORE_DRAW and quiescence returns the static evaluation.        *)
NoMoveTerminal ==
  (Returned /\ ~ret.aborted /\ ~IsDraw(RetPos) /\ LegalMoves(RetPos) = << >>
     /\ ret.ply < MAX_PLY)
    => ret.value = IF InCheck(RetPos) THEN -SCORE_MATE + ret.ply
                   ELSE IF ret.fn = "pv" THEN SCORE_DRAW
                   ELSE Evaluate(RetPos)

NoMoveTerminalWitness ==
  /\ Returned /\ ~ret.aborted /\ LegalMoves(RetPos) = << >> /\ InCheck(RetPos)
  /\ ret.fn = "q" /\ ret.ply = 2 /\ ret.value = -SCORE_MATE + 2

(* C8: a call returns with the position it was entered with, and during    *)
(* the search the position is the root plus one move for every frame that  *)
(* is between its doMove and its undoMove.                                 *)
PositionPreserved ==
  /\ Returned => ret.exitPos = ret.entryPos
  /\ wpc = "search" =>
       Len(sd.position) = 1 + Cardinality({ i \in 1..Len(stack) :
           stack[i].pc \in {"scout", "afterScout", "full", "call", "undo"} })
  /\ wpc \in {"iter", "check", "adopt", "exit", "finish", "clear"} => Len(sd.position) = 1

PositionPreservedWitness ==
  /\ Returned /\ ret.how = "loopabort" /\ ret.nbMoves > 0 /\ ret.ply > 0
  /\ ret.exitPos = ret.entryPos

(* C9 (as claimed): the PV adopted at depth d is a legal line from the     *)
(* root of at most d moves.                                                *)
PvLegalWithinDepth ==
  wpc = "adopt" => LegalLine(RootPos, pv) /\ Len(pv) <= depth

(* C9 (amended): the PV adopted at depth d is a legal line from the root;  *)
(* quiescence may extend it beyond d moves, up to MAX_PLY moves.           *)
PvLegal ==
  wpc = "adopt" => LegalLine(RootPos, pv) /\ Len(pv) <= MAX_PLY

PvLegalWitness ==
  wpc = "adopt" /\ Len(pv) > depth /\ LegalLine(RootPos, pv) /\ ~aborted

NodeLimitStop ==
  /\ [](sd.limits.maxNodes > 0 =>
          /\ sd.nbNodes <= sd.limits.maxNodes + 1
          /\ sd.nbNodes > sd.limits.maxNodes => aborted /\ depth > 1
          /\ wpc \in {"finish", "clear"} => event.depth >= 1)
  /\ (wpc # "none" /\ sd.limits.maxNodes > 0 /\ sd.nbNodes >= sd.limits.maxNodes)
       ~> (~searching /\ FinishCount = 1)

NodeLimitStopWitness ==
  /\ wpc = "clear" /\ sd.limits.maxNodes > 0
  /\ sd.nbNodes = sd.limits.maxNodes + 1
  /\ event.depth = 2 /\ completedDepth = 1

\* the onSearchProgress events of the current search, in emission order
ProgressEvents == SelectSeq(events, LAMBDA x : x.type = "progress")

(* C12: the depths of the progress events of a search increase strictly    *)
(* and start at 1; the root call of iteration d runs only after iteration  *)
(* d - 1 was accepted, with d < MAX_PLY; with maxDepth = D > 0 no root     *)
(* call has a depth > D and no event carries a depth > D; with D = 0 and   *)
(* no abort the loop is left after the depths 1..MAX_PLY-1 were accepted.  *)
DeepeningOrder ==
  /\ ProgressEvents # << >> => ProgressEvents[1].ev.depth = 1
  /\ \A i \in 1..(Len(ProgressEvents) - 1) :
        ProgressEvents[i].ev.depth < ProgressEvents[i + 1].ev.depth
  /\ wpc = "search" =>
        /\ stack[1].nt = "Root" /\ stack[1].depth = depth
        /\ completedDepth = depth - 1
        /\ depth < MAX_PLY
        /\ sd.limits.maxDepth > 0 => depth <= sd.limits.maxDepth
  /\ (wpc # "none" /\ sd.limits.maxDepth > 0) =>
        /\ \A i \in 1..Len(events) : events[i].ev.depth <= sd.limits.maxDepth
        /\ wpc \in {"finish", "clear"} => event.depth <= sd.limits.maxDepth
  /\ (wpc \in {"exit", "finish", "clear"} /\ sd.limits.maxDepth = 0 /\ ~aborted) =>
        /\ depth = MAX_PLY /\ completedDepth = MAX_PLY - 1
        /\ \A d \in 1..(MAX_PLY - 1) : ProgressEvents[d].ev.depth = d

DeepeningOrderWitness ==
  /\ wpc = "exit" /\ sd.limits.maxDepth = 2 /\ ~aborted
  /\ depth = 2 /\ completedDepth = 2 /\ Len(ProgressEvents) = 2

\* the progress events emitted inside the loop, at line 297
LoopEvents == SelectSeq(events, LAMBDA x : x.type = "progress" /\ x.inLoop)

(* C13: when idSearch finds the abort flag set after the root call of an   *)
(* iteration of depth > 1, it leaves the loop without touching bestPv,     *)
(* bestScore, completedDepth or the sinks; the PV and the score of the     *)
(* final event are those of the last progress event emitted in the loop.   *)
AbortedIterationDiscarded ==
  /\ [](wpc \in {"finish", "clear"} =>
          /\ LoopEvents # << >>
          /\ event.pv = LoopEvents[Len(LoopEvents)].ev.pv
          /\ event.score = LoopEvents[Len(LoopEvents)].ev.score
          /\ completedDepth = LoopEvents[Len(LoopEvents)].ev.depth)
  /\ [][(wpc = "check" /\ depth > 1 /\ aborted /\ wpc' # wpc)
          => /\ wpc' = "exit"
             /\ UNCHANGED << bestPv, bestScore, completedDepth, events >>]_vars

AbortedIterationDiscardedWitness ==
  /\ wpc = "finish" /\ aborted /\ depth > completedDepth /\ completedDepth >= 1
  /\ pv # bestPv /\ score # bestScore
  /\ event.pv = bestPv /\ event.score = bestScore

\* frame i keeps its bestScore, alpha and bestMove in this step, and its
\* childPv is left alone or cleared by the callee's pv.clear()
FrameKept(i) ==
  /\ stack'[i].bestScore = stack[i].bestScore
  /\ stack'[i].alpha = stack[i].alpha
  /\ stack'[i].bestMove = stack[i].bestMove
  /\ stack'[i].childPv \in {stack[i].childPv, << >>}

(* C14: once the abort flag is set, no step of the search assigns a score  *)
(* to the bestScore, alpha or bestMove of an active frame, none writes a   *)
(* line with updatePv, and none writes the table; the parent of a call     *)
(* that returned because of the flag goes from its undoMove straight to    *)
(* its return (a PV node may first make the re-search call of line 377),   *)
(* and a call that returns while the flag is set has stored nothing.       *)
NoAbortedScoreAdopted ==
  /\ [][aborted =>
          /\ \A i \in 1..Len(stack) : i <= Len(stack') => FrameKept(i)
          /\ pv' \in {pv, << >>}
          /\ wpc # "none" => tt' = tt]_vars
  /\ [][(Returned /\ ret.how \in {"abort", "loopabort"} /\ stack # << >>
           /\ stack' # stack)
          => \/ /\ Top.pc = "undo"
                /\ stack' = SetTop(stack, [Top EXCEPT !.pc = "post"])
             \/ /\ Top.pc = "afterScout"
                /\ stack' = SetTop(stack, [Top EXCEPT !.pc = "undo"])
             \/ /\ Top.pc = "afterScout" /\ IsPvNode(Top)
                /\ Len(stack') = Len(stack) + 1
                /\ stack'[Len(stack)] = [Top EXCEPT !.pc = "full"]]_vars
  /\ []((Returned /\ ret.aborted) => ret.how \in {"abort", "loopabort", "draw"})

NoAbortedScoreAdoptedWitness ==
  /\ Returned /\ ret.how = "loopabort" /\ ret.fn = "q" /\ ret.nbMoves > 0
  /\ ret.value # -SCORE_INFINITE
  /\ ~tt[RetPos].hit
  /\ stack # << >> /\ Top.pc = "undo" /\ Top.score = -ret.value

\* -SCORE_INFINITE <= a < b <= +SCORE_INFINITE
ValidWindow(a, b) == -SCORE_INFINITE <= a /\ a < b /\ b <= SCORE_INFINITE

(* C15: every active call was entered with a window                        *)
(* -SCORE_INFINITE <= alpha < beta <= +SCORE_INFINITE; a frame that has a  *)
(* call in flight holds such a window itself, and its callee's window is   *)
(* (-alpha-1, -alpha) for the scout and (-beta, -alpha) for the full       *)
(* search and for quiescence, alpha being the raised one.                  *)
WindowInvariant ==
  \A i \in 1..Len(stack) :
    LET f == stack[i]
    IN  /\ ValidWindow(f.alphaOrig, f.beta)
        /\ f.pc = "entry" => f.alpha = f.alphaOrig
        /\ f.pc \in {"scout", "afterScout", "full", "call", "undo"} =>
              ValidWindow(f.alpha, f.beta) /\ f.alpha >= f.alphaOrig
        /\ i < Len(stack) =>
              /\ f.pc \in {"scout", "full", "call"}
              /\ stack[i + 1].beta = -f.alpha
              /\ stack[i + 1].alphaOrig = IF f.pc = "scout" THEN -f.alpha - 1
                                          ELSE -f.beta

WindowInvariantWitness ==
  /\ Running /\ Len(stack) >= 3 /\ Top.fn = "q" /\ Top.pc = "entry"
  /\ stack[Len(stack) - 1].fn = "q"
  /\ stack[Len(stack) - 1].alpha > stack[Len(stack) - 1].alphaOrig
  /\ Top.beta = -stack[Len(stack) - 1].alpha
  /\ Top.alpha > -SCORE_INFINITE

(* C16: the frame at index i of the stack has ply i - 1, between 0 and     *)
(* MAX_PLY; a frame with ply = MAX_PLY never gets past its entry: it has   *)
(* counted no move and has no callee, and it returns the abort sentinel,   *)
(* the draw score or evaluate(pos).                                        *)
BoundedRecursion ==
  /\ Len(stack) <= MAX_PLY + 1
  /\ \A i \in 1..Len(stack) :
        /\ stack[i].ply = i - 1
        /\ stack[i].ply >= 0 /\ stack[i].ply <= MAX_PLY
        /\ stack[i].ply = MAX_PLY =>
              stack[i].pc = "entry" /\ stack[i].nbMoves = 0 /\ i = Len(stack)
  /\ (Returned /\ ret.ply = MAX_PLY) =>
        ret.how \in {"abort", "draw", "ceiling"} /\ ret.nbMoves = 0

BoundedRecursionWitness ==
  /\ Returned /\ ret.ply = MAX_PLY /\ ret.how = "ceiling" /\ ret.fn = "q"
  /\ ret.value = Evaluate(RetPos)
  /\ depth = MAX_PLY - 1 /\ Len(stack) = MAX_PLY

\* the call that just returned wrote its table entry (lines 409, 512)
Stored == Returned /\ ret.how = "stored"

\* the entry of the position of the call that just returned, as the bound
\* it states about the value v
EntrySound(v) ==
  LET e == tt[RetPos]
      s == TTScore(e, ret.ply)
  IN  /\ e.hit /\ e.bound \in {"EXACT", "LOWER", "UPPER"}
      /\ e.bound = "EXACT" =>
            s = v /\ ret.nt # "NonPV" /\ ret.alpha < s /\ s < ret.beta
      /\ e.bound = "LOWER" => v >= s
      /\ e.bound = "UPPER" => v <= s
      /\ ret.nt = "NonPV" => e.bound # "EXACT"

(* C17 (as claimed): every entry written by pvSearch or qSearch is sound   *)
(* for the value of its position searched to the stored depth: EXACT is    *)
(* that value and is written inside the window by a PV node only, LOWER is *)
(* at most that value, UPPER at least; the root's entries included.        *)
TTBoundSound ==
  Stored => EntrySound(Negamax(RetPos, tt[RetPos].depth, ret.ply, {}))

(* C18 (as claimed): `searching` is true exactly while a worker is active, *)
(* and the host is never inside search() while a worker is active.         *)
SearchingIffWorker ==
  /\ searching <=> wpc # "none"
  /\ hostPc # "idle" => wpc = "none"

(* C18 (amended): a worker is dispatched, and the table cleared, only      *)
(* while no worker is active; `searching` is true while a worker is        *)
(* active, and without an active worker only between line 266 of the       *)
(* search() call that is about to dispatch one and that dispatch; the      *)
(* table is written by the host at line 268 only, with no worker active,   *)
(* and by the worker only while the host is outside search().              *)
SingleWorker ==
  /\ [](hostPc # "idle" => wpc = "none")
  /\ [](wpc # "none" => searching)
  /\ [](searching => (wpc # "none" \/ hostPc \in {"l268", "l270"}))
  /\ [][(hostPc = "l270" /\ hostPc' = "idle")
          => wpc = "none" /\ wpc' = "iter" /\ searching]_vars
  /\ [][tt' # tt => \/ hostPc = "l268" /\ wpc = "none"
                    \/ hostPc = "idle" /\ wpc = "search"]_vars

SingleWorkerWitness ==
  /\ searching /\ wpc = "none" /\ hostPc = "l268"
  /\ nbCalls = 2 /\ nbRejected = 0
  /\ \E p \in Positions : tt[p].hit

====
